---- MODULE Spec2Model ----
(***************************************************************************)
(* mciso: Monte Carlo inventory stocking optimisation.                     *)
(*                                                                         *)
(* Two state machines share this module.                                   *)
(*   SpecConv  - the data conversion layer of utils.py (array_to_dok,      *)
(*               dok_to_array) and convert_data of model.py.               *)
(*   SpecModel - create_model of model.py and model-one-product.py: the    *)
(*               components of the abstract model are constructed in       *)
(*               declaration order against a data set, and a solver then   *)
(*               returns an assignment of the declared variables that      *)
(*               satisfies every constructed constraint.                   *)
(***************************************************************************)
EXTENDS Integers, Sequences, FiniteSets, TLC

VARIABLES
    stage,          \* SpecConv: "array" | "dok" | "done" | "converted" ("idle" under SpecModel)
    origin,         \* SpecConv: "array" when the map came from array_to_dok, "raw" otherwise
    arrX,           \* SpecConv: the dense array X handed to array_to_dok / convert_data
    dok,            \* SpecConv: the dictionary of keys, in insertion order
    index_offset,   \* SpecConv: the index_offset argument of the last dok_to_array call
    res,            \* SpecConv: what dok_to_array returned or raised
    cargs,          \* SpecConv: the arguments of the last convert_data call
    cdata,          \* SpecConv: what convert_data returned
    variant,        \* SpecModel: "multi" (model.py) or "one" (model-one-product.py)
    data,           \* SpecModel: the data set handed to create_instance
    pc,             \* SpecModel: number of components constructed so far
    status,         \* SpecModel: "constructing" | "built" | the exception that ended construction
    cons,           \* SpecModel: the constraint instances constructed so far
    obj,            \* SpecModel: the objective expression, once constructed
    plan,           \* SpecModel: the assignment the solver returned
    sol             \* SpecModel: "none" | "optimal" | "feasible" | "infeasible"

convVars == <<stage, origin, arrX, dok, index_offset, res, cargs, cdata>>

modelVars == <<variant, data, pc, status, cons, obj, plan, sol>>

vars == <<convVars, modelVars>>

-----------------------------------------------------------------------------
(* Bounds of the conversion layer's inputs.                                *)

\* cells of an input array (product of its extents)
MaxSize == 6
\* number of dimensions of an input array
MaxNdim == 3
\* cell values of an input array are 0..MaxVal
MaxVal == 1
\* key coordinates of a hand-written map are 0..MaxKey
MaxKey == 2
\* entries of a hand-written map
MaxItems == 2

\* index_offset: int = -1
DefaultOffset == -1

Offsets == {-2, -1, 0, 1}

-----------------------------------------------------------------------------
(* numpy arrays: a shape and one cell per 0-based coordinate tuple.        *)

Num(n) == [nan |-> FALSE, v |-> n]

\* np.nan, the missing-value sentinel
NaN == [nan |-> TRUE, v |-> 0]

Max(S) == CHOOSE m \in S : \A n \in S : n <= m

RECURSIVE Prod(_)
Prod(shape) == IF shape = <<>> THEN 1 ELSE shape[1] * Prod(Tail(shape))

RECURSIVE Indices(_)
Indices(shape) ==
    IF shape = <<>> THEN {<<>>}
    ELSE {<<h>> \o t : h \in 0..(shape[1] - 1), t \in Indices(Tail(shape))}

Shapes ==
    {s \in UNION {[1..n -> 1..MaxSize] : n \in 1..MaxNdim} : Prod(s) <= MaxSize}

Arrays ==
    UNION {{[shape |-> s, cells |-> c] :
                c \in [Indices(s) -> {Num(v) : v \in 0..MaxVal}]} : s \in Shapes}

NoArray == [shape |-> <<>>, cells |-> <<>>]

\* position of coordinate t in the row-major (C order) layout of an array
RECURSIVE FlatIndex(_, _)
FlatIndex(t, shape) ==
    IF t = <<>> THEN 0
    ELSE t[1] * Prod(Tail(shape)) + FlatIndex(Tail(t), Tail(shape))

\* position of coordinate t in the column-major (Fortran order) layout
RECURSIVE FlatIndexF(_, _)
FlatIndexF(t, shape) ==
    IF t = <<>> THEN 0
    ELSE t[1] + shape[1] * FlatIndexF(Tail(t), Tail(shape))

\* X.ravel(order="F") where X.ravel() is meant
ravel_fortran(X) ==
    [p \in 1..Prod(X.shape) |->
        X.cells[CHOOSE t \in Indices(X.shape) : FlatIndexF(t, X.shape) = p - 1]]

\* X.ravel(): the cells in memory order
ravel(X) ==
    [p \in 1..Prod(X.shape) |->
        X.cells[CHOOSE t \in Indices(X.shape) : FlatIndex(t, X.shape) = p - 1]]

\* range(a, b) as a sequence
range(a, b) == [n \in 1..(b - a) |-> a + n - 1]

\* itertools.product(*ranges): the rightmost element advances fastest
RECURSIVE product(_)
product(ranges) ==
    IF ranges = <<>> THEN << <<>> >>
    ELSE LET rest == product(Tail(ranges))
             head == ranges[1]
         IN [p \in 1..(Len(head) * Len(rest)) |->
                <<head[((p - 1) \div Len(rest)) + 1]>> \o rest[((p - 1) % Len(rest)) + 1]]

\* zip(a, b): pairs, as long as the shorter
zip(a, b) ==
    [n \in 1..(IF Len(a) <= Len(b) THEN Len(a) ELSE Len(b)) |-> <<a[n], b[n]>>]

\* dict(pairs): insertion ordered; a repeated key keeps its place and takes the
\* later value
RECURSIVE dict(_)
dict(pairs) ==
    IF pairs = <<>> THEN <<>>
    ELSE LET n == Len(pairs)
             d == dict(SubSeq(pairs, 1, n - 1))
             last == pairs[n]
             at == {m \in 1..Len(d) : d[m].key = last[1]}
         IN IF at = {} THEN Append(d, [key |-> last[1], val |-> last[2]])
            ELSE [m \in 1..Len(d) |-> IF m \in at THEN [key |-> d[m].key, val |-> last[2]]
                                       ELSE d[m]]

\* a dictionary key: a tuple of ints (tuple = TRUE) or a bare int idx[1]
TupleKey(t) == [tuple |-> TRUE, idx |-> t]
IntKey(n) == [tuple |-> FALSE, idx |-> <<n>>]

array_to_dok(X) ==
    IF Len(X.shape) > 1
    THEN LET keys == product([n \in 1..Len(X.shape) |-> range(1, X.shape[n] + 1)])
         IN dict(zip([p \in 1..Len(keys) |-> TupleKey(keys[p])], ravel(X)))
    ELSE dict([idx \in 1..X.shape[1] |-> <<IntKey((idx - 1) + 1), X.cells[<<idx - 1>>]>>])

Raise(e) == [err |-> e, shape |-> <<>>, cells |-> <<>>]

NoRes == Raise("unset")

\* the key of dok_adj for key k: every coordinate moved by index_offset, a bare
\* int wrapped into a 1-tuple
AdjKey(k, o) ==
    IF k.tuple THEN [n \in 1..Len(k.idx) |-> k.idx[n] + o] ELSE <<k.idx[1] + o>>

dok_adj(d, o) == dict([n \in 1..Len(d) |-> <<AdjKey(d[n].key, o), d[n].val>>])

\* a numpy index: negative indices count from the end
Wrap(t, shape) == [c \in 1..Len(t) |-> IF t[c] < 0 THEN t[c] + shape[c] ELSE t[c]]

\* lines 24-27 for keys of one arity: the shape, np.full and the fancy-indexed
\* assignment
fill(adj, keys, o) ==
    LET shape == [c \in 1..Len(keys[1]) |->
                    Max({keys[n][c] : n \in 1..Len(keys)}) - o]
    IN IF \E c \in 1..Len(shape) : shape[c] < 0
       THEN Raise("ValueError")   \* np.full: negative dimensions
       ELSE IF \E n \in 1..Len(keys), c \in 1..Len(shape) :
                  keys[n][c] >= shape[c] \/ keys[n][c] < 0 - shape[c]
       THEN Raise("IndexError")
       ELSE [err |-> "none", shape |-> shape,
             cells |-> [t \in Indices(shape) |->
                LET hits == {n \in 1..Len(keys) : Wrap(keys[n], shape) = t}
                IN IF hits = {} THEN NaN ELSE adj[Max(hits)].val]]

\* the maximum taken with initial=0, so that an empty map yields an empty array
dok_to_array_initial(d, o, legacy) ==
    LET adj == dok_adj(d, o)
        keys == [n \in 1..Len(adj) |-> adj[n].key]
    IN IF Len(keys) = 0
       THEN [err |-> "none", shape |-> <<0>>, cells |-> <<>>]
       ELSE IF \E n \in 1..Len(keys) : Len(keys[n]) # Len(keys[1])
       THEN Raise(IF legacy THEN "TypeError" ELSE "ValueError")
       ELSE fill(adj, keys, o)

\* legacy: whether np.array builds an object array from ragged rows (numpy
\* before 1.24; the subtraction of index_offset from its maximum, a tuple, then
\* raises TypeError) instead of raising ValueError
dok_to_array(d, o, legacy) ==
    LET adj == dok_adj(d, o)
        keys == [n \in 1..Len(adj) |-> adj[n].key]
    IN IF Len(keys) = 0
       THEN Raise("ValueError")   \* max of a zero-size array
       ELSE IF \E n \in 1..Len(keys) : Len(keys[n]) # Len(keys[1])
       THEN Raise(IF legacy THEN "TypeError" ELSE "ValueError")
       ELSE fill(adj, keys, o)

-----------------------------------------------------------------------------
(* convert_data of model.py                                                *)

\* the key None of a parameter indexed by no set
NoneKey == [tuple |-> FALSE, idx |-> <<>>]

Scalar(v) == dict(<< <<NoneKey, v>> >>)

\* the dictionary under the namespace None; every numeric argument is ignored
convert_data(n_months, n_scenarios, D, SP, UP, W, O, L, MOQ, BI, UB, LB) ==
    [n_months |-> Scalar(5),
     n_scenarios |-> Scalar(2),
     D |-> dict(<< <<TupleKey(<<1, 1>>), 100>>, <<TupleKey(<<2, 1>>), 120>>,
                   <<TupleKey(<<3, 1>>), 80>>, <<TupleKey(<<4, 1>>), 90>>,
                   <<TupleKey(<<5, 1>>), 100>>, <<TupleKey(<<1, 2>>), 80>>,
                   <<TupleKey(<<2, 2>>), 100>>, <<TupleKey(<<3, 2>>), 150>>,
                   <<TupleKey(<<4, 2>>), 120>>, <<TupleKey(<<5, 2>>), 80>> >>),
     CM |-> Scalar(500),
     W |-> Scalar(40),
     O |-> Scalar(2 * 500),
     L |-> Scalar(1000),
     MOQ |-> Scalar(300),
     BI |-> Scalar(0),
     UB |-> Scalar(999999),
     LB |-> Scalar(0)]

NoArgs == [n_months |-> 0, n_scenarios |-> 0, n_skus |-> 0, p |-> 0]

NoData == [none |-> <<>>]

-----------------------------------------------------------------------------
(* SpecConv: the conversion layer                                          *)

Keys ==
    {IntKey(n) : n \in 0..MaxKey}
    \cup {TupleKey(<<a>>) : a \in 0..MaxKey}
    \cup {TupleKey(<<a, b>>) : a, b \in 0..MaxKey}

\* hand-written maps: up to MaxItems distinct keys, the n-th entry holding n
RawDoks ==
    UNION {{[n \in 1..len |-> [key |-> ks[n], val |-> Num(n)]] :
                ks \in {s \in [1..len -> Keys] : \A a, b \in 1..len : a # b => s[a] # s[b]}} :
           len \in 0..MaxItems}

InitConv ==
    /\ \/ /\ stage = "array" /\ origin = "array"
          /\ arrX \in Arrays
          /\ dok = <<>>
       \/ /\ stage = "dok" /\ origin = "raw"
          /\ arrX = NoArray
          /\ dok \in RawDoks
    /\ index_offset = DefaultOffset
    /\ res = NoRes
    /\ cargs = NoArgs
    /\ cdata = NoData
    /\ variant = "none" /\ data = NoData /\ pc = 0 /\ status = "idle"
    /\ cons = {} /\ obj = NoData /\ plan = <<>> /\ sol = "none"

ArrayToDok ==
    /\ stage = "array"
    /\ dok' = array_to_dok(arrX)
    /\ stage' = "dok"
    /\ UNCHANGED <<origin, arrX, index_offset, res, cargs, cdata, modelVars>>

\* the number of coordinates of a key: a bare int counts as one
Arity(k) == Len(k.idx)

UniformArity(d) == \A a, b \in 1..Len(d) : Arity(d[a].key) = Arity(d[b].key)

\* which numpy runs the call only shows on rows of different length
DokToArray ==
    /\ stage = "dok"
    /\ \E o \in Offsets, legacy \in (IF UniformArity(dok) THEN {FALSE} ELSE BOOLEAN) :
          /\ index_offset' = o
          /\ res' = dok_to_array(dok, o, legacy)
    /\ stage' = "done"
    /\ UNCHANGED <<origin, arrX, dok, cargs, cdata, modelVars>>

\* convert_data called with D = arrX (months x scenarios x SKUs) and per-SKU
\* parameter arrays of one value p
ConvertData ==
    /\ stage = "array"
    /\ Len(arrX.shape) = 3
    /\ \E p \in 0..MaxVal :
          LET n_months == arrX.shape[1]
              n_scenarios == arrX.shape[2]
              perK == [shape |-> <<arrX.shape[3]>>,
                       cells |-> [t \in Indices(<<arrX.shape[3]>>) |-> Num(p)]]
          IN /\ cargs' = [n_months |-> n_months, n_scenarios |-> n_scenarios,
                          n_skus |-> arrX.shape[3], p |-> p]
             /\ cdata' = convert_data(n_months, n_scenarios, arrX, perK, perK, perK,
                                      perK, perK, perK, perK, p, perK)
    /\ stage' = "converted"
    /\ UNCHANGED <<origin, arrX, dok, index_offset, res, modelVars>>

NextConv == ArrayToDok \/ DokToArray \/ ConvertData

SpecConv == InitConv /\ [][NextConv]_vars

-----------------------------------------------------------------------------
(* Bounds of the optimisation models' data.                                *)

\* n_months * n_scenarios * n_skus of a data set
MaxCells == 2
\* demands, and the values a solver may give a variable, are 0..MaxQty
MaxQty == 2

\* _bigM = 1e5
bigM == 100000

-----------------------------------------------------------------------------
(* Expressions of the modelling framework: a side of a constraint is a sum *)
(* of terms c * v[idx], v a declared variable or "const" (the number c),   *)
(* held as a sequence.                                                     *)

T(c, v, idx) == [c |-> c, v |-> v, idx |-> idx]
Const(c) == T(c, "const", <<>>)

\* lhs rel rhs
Rel(lhs, rel, rhs) == [kind |-> "expr", rel |-> rel, lhs |-> lhs, mid |-> <<>>, rhs |-> rhs]
\* the 3-tuple (lower, body, upper): lower <= body <= upper
Range(lower, body, upper) ==
    [kind |-> "expr", rel |-> "range", lhs |-> lower, mid |-> body, rhs |-> upper]
\* pyo.Constraint.Skip
Skip == [kind |-> "skip", rel |-> "", lhs |-> <<>>, mid |-> <<>>, rhs |-> <<>>]

Terms(e) == e.lhs \o e.mid \o e.rhs

Range1(seq) == {seq[n] : n \in 1..Len(seq)}

\* the elements of a set in some order
RECURSIVE SeqOf(_)
SeqOf(S) ==
    IF S = {} THEN <<>>
    ELSE LET x == CHOOSE y \in S : TRUE IN <<x>> \o SeqOf(S \ {x})

\* the variable cells an expression mentions
VarsOf(e) == {<<t.v, t.idx>> : t \in {u \in Range1(Terms(e)) : u.v # "const"}}

\* the value of a term under assignment p; the term T(c, "at", <<n>>) stands for
\* c times the n-th cell of a search order, of which p is the sequence of values
TermValue(t, p) ==
    t.c * (CASE t.v = "const" -> 1
             [] t.v = "at" -> p[t.idx[1]]
             [] OTHER -> p[<<t.v, t.idx>>])

RECURSIVE EvalFrom(_, _, _)
EvalFrom(terms, p, n) ==
    IF n > Len(terms) THEN 0 ELSE TermValue(terms[n], p) + EvalFrom(terms, p, n + 1)

Eval(terms, p) == EvalFrom(terms, p, 1)

Holds(e, p) ==
    CASE e.rel = "==" -> Eval(e.lhs, p) = Eval(e.rhs, p)
      [] e.rel = ">=" -> Eval(e.lhs, p) >= Eval(e.rhs, p)
      [] e.rel = "<=" -> Eval(e.lhs, p) <= Eval(e.rhs, p)
      [] e.rel = "range" -> Eval(e.lhs, p) <= Eval(e.mid, p) /\ Eval(e.mid, p) <= Eval(e.rhs, p)

-----------------------------------------------------------------------------
(* create_model of model.py: the multi-product model                       *)

\* model.I, model.J, model.K: RangeSet(1, n)
RangeSet(a, b) == a..b
SetI(d) == RangeSet(1, d.n_months)
SetJ(d) == RangeSet(1, d.n_scenarios)
SetK(d) == RangeSet(1, d.n_skus)

const_surplus_deficit(d, i, j, k) ==
    Rel(<<T(1, "V", <<i, j, k>>), T(1, "s", <<i, j, k>>)>>, "==", <<T(1, "S", <<i, j, k>>)>>)

const_stock1(d, j, k) ==
    Rel(<<T(1, "S", <<1, j, k>>)>>, "==", <<T(1, "X", <<1, k>>), Const(d.BI[k])>>)

\* the unmet demand of the previous month carried as a backlog
const_stock_backlog(d, i, j, k) ==
    IF i <= 1 THEN Skip
    ELSE Rel(<<T(1, "S", <<i, j, k>>)>>, "==",
             <<T(1, "X", <<i, k>>), T(1, "s", <<i - 1, j, k>>), T(-1, "d", <<i - 1, j, k>>)>>)

const_stock(d, i, j, k) ==
    IF i <= 1 THEN Skip
    ELSE Rel(<<T(1, "S", <<i, j, k>>)>>, "==",
             <<T(1, "X", <<i, k>>), T(1, "s", <<i - 1, j, k>>)>>)

const_stock_buffer(d, i, j, k) ==
    Rel(<<T(1, "S", <<i, j, k>>), T(-1, "V", <<i, j, k>>)>>, ">=", <<Const(d.LB[k])>>)

const_stock_max(d, i, j) ==
    Rel([k \in SetK(d) |-> T(d.UP[k], "S", <<i, j, k>>)], "<=", <<Const(d.UB)>>)

const_volume_bounds_demand(d, i, j, k) ==
    Rel(<<T(1, "V", <<i, j, k>>), T(1, "d", <<i, j, k>>)>>, "==", <<Const(d.D[<<i, j, k>>])>>)

const_moq1(d, i, k) ==
    Rel(<<T(1, "X", <<i, k>>)>>, ">=", <<T(d.MOQ[k], "z", <<i, k>>)>>)

\* the switch z left out of the big-M bound
const_moq2_unswitched(d, i, k) ==
    Rel(<<T(1, "X", <<i, k>>)>>, "<=", <<Const(bigM)>>)

const_moq2(d, i, k) ==
    Rel(<<T(1, "X", <<i, k>>)>>, "<=", <<T(bigM, "z", <<i, k>>)>>)

\* (sum of num) / den - (sum of minus)
obj_expression(d) ==
    [num |-> SeqOf(UNION {{T(d.SP[idx[3]] - d.UP[idx[3]], "V", idx),
                           T(0 - d.W[idx[3]], "s", idx),
                           T(0 - d.O[idx[3]], "d", idx)} :
                              idx \in SetI(d) \X SetJ(d) \X SetK(d)}),
     den |-> d.n_scenarios,
     minus |-> SeqOf({T(d.L[idx[2]], "z", idx) : idx \in SetI(d) \X SetK(d)})]

-----------------------------------------------------------------------------
(* create_model of model-one-product.py: the single-product model          *)

one_const_surplus_deficit(d, i, j) ==
    Rel(<<T(1, "V", <<i, j>>), T(1, "s", <<i, j>>), T(-1, "d", <<i, j>>)>>, "==",
        <<Const(d.D[<<i, j>>])>>)

one_const_stock1(d, j) ==
    Rel(<<T(1, "S", <<1, j>>)>>, "==", <<T(1, "X", <<1>>), Const(d.BI)>>)

one_const_stock(d, i, j) ==
    IF i <= 1 THEN Skip
    ELSE Rel(<<T(1, "S", <<i, j>>)>>, "==",
             <<T(1, "X", <<i>>), T(1, "S", <<i - 1, j>>), T(-1, "V", <<i - 1, j>>)>>)

one_const_stock_bounds(d, i, j) ==
    Range(<<Const(d.LB)>>, <<T(1, "S", <<i, j>>)>>, <<Const(d.UB)>>)

one_const_volume_bounds(d, i, j) ==
    Rel(<<T(1, "V", <<i, j>>)>>, "<=", <<T(1, "S", <<i, j>>)>>)

one_const_moq1(d, i) ==
    Rel(<<T(1, "X", <<i>>)>>, ">=", <<T(d.MOQ, "z", <<i>>)>>)

one_const_moq2(d, i) ==
    Rel(<<T(1, "X", <<i>>)>>, "<=", <<T(bigM, "z", <<i>>)>>)

one_obj_expression(d) ==
    [num |-> SeqOf(UNION {{T(d.CM, "V", idx), T(0 - d.W, "s", idx), T(0 - d.O, "d", idx)} :
                              idx \in SetI(d) \X SetJ(d)}),
     den |-> d.n_scenarios,
     minus |-> SeqOf({T(d.L, "z", <<i>>) : i \in SetI(d)})]

-----------------------------------------------------------------------------
(* The components of each abstract model, in declaration order.            *)

Comp(name, kind, within) == [name |-> name, kind |-> kind, within |-> within]

Components(v) ==
    IF v = "multi"
    THEN << Comp("n_months", "param", "NonNegativeIntegers"), Comp("I", "set", ""),
            Comp("n_scenarios", "param", "NonNegativeIntegers"), Comp("J", "set", ""),
            Comp("n_skus", "param", "NonNegativeIntegers"), Comp("K", "set", ""),
            Comp("D", "param", "NonNegativeReals"),
            Comp("SP", "param", "NonNegativeReals"), Comp("UP", "param", "NonNegativeReals"),
            Comp("W", "param", "NonNegativeReals"), Comp("O", "param", "NonNegativeReals"),
            Comp("L", "param", "NonNegativeReals"), Comp("MOQ", "param", "NonNegativeReals"),
            Comp("BI", "param", "NonNegativeReals"), Comp("UB", "param", "NonNegativeReals"),
            Comp("LB", "param", "NonNegativeReals"),
            Comp("X", "var", "NonNegativeIntegers"), Comp("V", "var", "NonNegativeReals"),
            Comp("S", "var", "NonNegativeReals"), Comp("s", "var", "NonNegativeReals"),
            Comp("d", "var", "NonNegativeReals"), Comp("z", "var", "Binary"),
            Comp("const_surplus_deficit", "constraint", ""),
            Comp("const_stock1", "constraint", ""),
            Comp("const_stock", "constraint", ""),
            Comp("const_stock_buffer", "constraint", ""),
            Comp("const_stock_max", "constraint", ""),
            Comp("const_volume_bounds_demand", "constraint", ""),
            Comp("const_moq1", "constraint", ""),
            Comp("const_moq2", "constraint", ""),
            Comp("OBJ", "objective", "") >>
    ELSE << Comp("n_months", "param", "NonNegativeIntegers"), Comp("I", "set", ""),
            Comp("n_scenarios", "param", "NonNegativeIntegers"), Comp("J", "set", ""),
            Comp("D", "param", "NonNegativeIntegers"),
            Comp("CM", "param", "NonNegativeReals"),
            Comp("W", "param", "NonNegativeReals"), Comp("O", "param", "NonNegativeReals"),
            Comp("L", "param", "NonNegativeReals"), Comp("MOQ", "param", "NonNegativeIntegers"),
            Comp("BI", "param", "NonNegativeIntegers"), Comp("UB", "param", "NonNegativeReals"),
            Comp("LB", "param", "NonNegativeReals"),
            Comp("X", "var", "NonNegativeIntegers"), Comp("V", "var", "NonNegativeIntegers"),
            Comp("S", "var", "NonNegativeIntegers"), Comp("s", "var", "NonNegativeIntegers"),
            Comp("d", "var", "NonNegativeIntegers"), Comp("z", "var", "Binary"),
            Comp("const_surplus_deficit", "constraint", ""),
            Comp("const_stock1", "constraint", ""),
            Comp("const_stock", "constraint", ""),
            Comp("const_stock_bounds", "constraint", ""),
            Comp("const_volume_bounds", "constraint", ""),
            Comp("const_moq1", "constraint", ""),
            Comp("const_moq2", "constraint", ""),
            Comp("OBJ", "objective", "") >>

\* the index set a variable or constraint is declared over
IndexSet(v, name, d) ==
    IF v = "multi"
    THEN CASE name \in {"X", "z", "const_moq1", "const_moq2"} -> SetI(d) \X SetK(d)
           [] name \in {"V", "S", "s", "d", "const_surplus_deficit", "const_stock",
                        "const_stock_buffer", "const_volume_bounds_demand"} ->
                  SetI(d) \X SetJ(d) \X SetK(d)
           [] name = "const_stock1" -> SetJ(d) \X SetK(d)
           [] name = "const_stock_max" -> SetI(d) \X SetJ(d)
    ELSE CASE name \in {"X", "z", "const_moq1", "const_moq2"} -> {<<i>> : i \in SetI(d)}
           [] name \in {"V", "S", "s", "d", "const_surplus_deficit", "const_stock",
                        "const_stock_bounds", "const_volume_bounds"} -> SetI(d) \X SetJ(d)
           [] name = "const_stock1" -> {<<j>> : j \in SetJ(d)}

\* what the rule of constraint `name` returns for index idx
Rule(v, name, d, idx) ==
    IF v = "multi"
    THEN CASE name = "const_surplus_deficit" -> const_surplus_deficit(d, idx[1], idx[2], idx[3])
           [] name = "const_stock1" -> const_stock1(d, idx[1], idx[2])
           [] name = "const_stock" -> const_stock(d, idx[1], idx[2], idx[3])
           [] name = "const_stock_buffer" -> const_stock_buffer(d, idx[1], idx[2], idx[3])
           [] name = "const_stock_max" -> const_stock_max(d, idx[1], idx[2])
           [] name = "const_volume_bounds_demand" ->
                  const_volume_bounds_demand(d, idx[1], idx[2], idx[3])
           [] name = "const_moq1" -> const_moq1(d, idx[1], idx[2])
           [] name = "const_moq2" -> const_moq2(d, idx[1], idx[2])
    ELSE CASE name = "const_surplus_deficit" -> one_const_surplus_deficit(d, idx[1], idx[2])
           [] name = "const_stock1" -> one_const_stock1(d, idx[1])
           [] name = "const_stock" -> one_const_stock(d, idx[1], idx[2])
           [] name = "const_stock_bounds" -> one_const_stock_bounds(d, idx[1], idx[2])
           [] name = "const_volume_bounds" -> one_const_volume_bounds(d, idx[1], idx[2])
           [] name = "const_moq1" -> one_const_moq1(d, idx[1])
           [] name = "const_moq2" -> one_const_moq2(d, idx[1])

VarNames == {"X", "V", "S", "s", "d", "z"}

\* every cell of every declared variable
Cells(v, d) == UNION {{<<x, idx>> : idx \in IndexSet(v, x, d)} : x \in VarNames}

\* pyomo.Constraint construction: the rule is called for every index; an
\* expression that indexes a variable outside its index set raises KeyError
Instances(v, name, d) ==
    LET all == {[name |-> name, idx |-> idx, expr |-> Rule(v, name, d, idx)] :
                    idx \in IndexSet(v, name, d)}
    IN IF \E c \in all : ~(VarsOf(c.expr) \subseteq Cells(v, d))
       THEN [err |-> "KeyError", cons |-> {}]
       ELSE [err |-> "none", cons |-> {c \in all : c.expr.kind # "skip"}]

ConstraintNames(v) ==
    {Components(v)[m].name : m \in {n \in 1..Len(Components(v)) :
                                        Components(v)[n].kind = "constraint"}}

\* every constraint instance of a fully constructed model
AllConstraints(v, d) == UNION {Instances(v, name, d).cons : name \in ConstraintNames(v)}

Within(dom, x) ==
    CASE dom = "NonNegativeIntegers" -> x \in Nat
      [] dom = "NonNegativeReals" -> x >= 0
      [] dom = "Binary" -> x \in {0, 1}

\* the parameters declared over no index set
ScalarParams(v) ==
    IF v = "multi" THEN {"n_months", "n_scenarios", "n_skus", "UB"}
    ELSE {"n_months", "n_scenarios", "CM", "W", "O", "L", "MOQ", "BI", "UB", "LB"}

\* the values the data gives parameter `name`
ParamValues(v, name, d) ==
    IF name \in ScalarParams(v) THEN {d[name]}
    ELSE {d[name][x] : x \in DOMAIN d[name]}

-----------------------------------------------------------------------------
(* The solver boundary: the assignments that satisfy every constraint.     *)

DomainOf(v, cell) ==
    IF (CHOOSE c \in {Components(v)[m] : m \in 1..Len(Components(v))} :
            c.name = cell[1]).within = "Binary"
    THEN 0..1 ELSE 0..MaxQty

\* the order a search assigns the cells in: by month, an order (X, z) before
\* the recourse of that month
Rank(cell) ==
    LET idx == cell[2]
        first == cell[1] \in {"X", "z"}
        a == IF Len(idx) >= 2 THEN idx[2] ELSE 0
        b == IF Len(idx) >= 3 THEN idx[3] ELSE 0
        n == CASE cell[1] = "X" -> 0 [] cell[1] = "z" -> 1 [] cell[1] = "S" -> 2
               [] cell[1] = "V" -> 3 [] cell[1] = "s" -> 4 [] cell[1] = "d" -> 5
        B == MaxCells + 2
    IN IF first
       THEN ((idx[1] * 2) * B * B + a * B) * 8 + n
       ELSE ((idx[1] * 2 + 1) * B * B + a * B + b) * 8 + n

RECURSIVE Sorted(_)
Sorted(S) ==
    IF S = {} THEN <<>>
    ELSE LET c == CHOOSE x \in S : \A y \in S : Rank(x) <= Rank(y)
         IN <<c>> \o Sorted(S \ {c})

\* the terms with every variable cell replaced by its place in the order
Place(order, terms) ==
    [m \in 1..Len(terms) |->
        IF terms[m].v = "const" THEN terms[m]
        ELSE T(terms[m].c, "at",
               <<CHOOSE n \in 1..Len(order) : order[n] = <<terms[m].v, terms[m].idx>> >>)]

\* last: the place from which on all variables of the expression are assigned
Placed(order, e) ==
    [kind |-> e.kind, rel |-> e.rel, lhs |-> Place(order, e.lhs), mid |-> Place(order, e.mid),
     rhs |-> Place(order, e.rhs),
     last |-> Max({t.idx[1] : t \in {u \in Range1(Place(order, Terms(e))) : u.v = "at"}}
                  \cup {0})]

PlacedObj(order, o) ==
    [num |-> Place(order, o.num), den |-> o.den, minus |-> Place(order, o.minus)]

\* P: the assignments of the first n - 1 cells that satisfy every constraint
\* of cs whose variables they all assign
RECURSIVE Search(_, _, _, _)
Search(P, n, doms, cs) ==
    IF n > Len(doms) \/ P = {} THEN P
    ELSE Search({q \in {Append(p, val) : p \in P, val \in doms[n]} :
                    \A k \in {x \in cs : x.last = n} : Holds(k, q)},
                n + 1, doms, cs)

\* the sequence of values as a function of the cells
AsPlan(order, q) == [c \in Range1(order) |-> q[CHOOSE n \in 1..Len(order) : order[n] = c]]

\* every assignment of the cells of order, as the sequence of their values over
\* their domains, that satisfies every constraint of cs
FeasibleIn(order, v, cs) ==
    Search({<<>>}, 1, [n \in 1..Len(order) |-> DomainOf(v, order[n])],
           {Placed(order, k.expr) : k \in cs})

\* every assignment of the declared variables that satisfies every constraint
FeasiblePlans(v, d, cs) ==
    {AsPlan(Sorted(Cells(v, d)), q) : q \in FeasibleIn(Sorted(Cells(v, d)), v, cs)}

\* q satisfies every constraint of cs and gives every cell a value of its domain
Feasible(v, d, cs, q) ==
    /\ DOMAIN q = Cells(v, d)
    /\ \A c \in DOMAIN q : q[c] \in DomainOf(v, c)
    /\ \A k \in cs : Holds(k.expr, q)

\* den * objective value
ObjScaled(o, q) == Eval(o.num, q) - o.den * Eval(o.minus, q)

OptScaled(o, F) == Max({ObjScaled(o, q) : q \in F})

-----------------------------------------------------------------------------
(* The data sets                                                           *)

\* beginning inventory, buffer and cap
StockProfiles ==
    {[BI |-> 0, LB |-> 0, UB |-> MaxQty], [BI |-> 1, LB |-> 0, UB |-> MaxQty],
     [BI |-> 0, LB |-> 1, UB |-> MaxQty], [BI |-> 0, LB |-> 0, UB |-> 1]}

\* per unit: contribution margin, storage cost, out of stock cost; per order:
\* shipping cost
Costs == [CM |-> 1, W |-> 1, O |-> 2, L |-> 3]

DemandVals == {1, MaxQty}

Dims ==
    {t \in ((0 - 1)..MaxCells) \X ((0 - 1)..MaxCells) \X (1..MaxCells) :
        /\ t[1] * t[2] * t[3] <= MaxCells
        /\ (t[1] <= 0 \/ t[2] <= 0) => (t[1] <= 1 /\ t[2] <= 1 /\ t[3] = 1)}

Fill(n, x) == [k \in 1..n |-> x]

\* SKU k costs k a unit
MultiData ==
    UNION {{[n_months |-> t[1], n_scenarios |-> t[2], n_skus |-> t[3],
             D |-> D, SP |-> [k \in 1..t[3] |-> k + Costs.CM], UP |-> [k \in 1..t[3] |-> k],
             W |-> Fill(t[3], Costs.W), O |-> Fill(t[3], Costs.O), L |-> Fill(t[3], Costs.L),
             MOQ |-> MOQ, BI |-> Fill(t[3], sp.BI), UB |-> sp.UB, LB |-> Fill(t[3], sp.LB)] :
                D \in [(1..t[1]) \X (1..t[2]) \X (1..t[3]) -> DemandVals],
                MOQ \in [1..t[3] -> {0, MaxQty}],
                sp \in StockProfiles} : t \in Dims}

\* the single-product data set equivalent to a one-SKU data set
OneOf(m) ==
    [n_months |-> m.n_months, n_scenarios |-> m.n_scenarios,
     D |-> [x \in (1..m.n_months) \X (1..m.n_scenarios) |-> m.D[<<x[1], x[2], 1>>]],
     CM |-> m.SP[1] - m.UP[1], W |-> m.W[1], O |-> m.O[1], L |-> m.L[1],
     MOQ |-> m.MOQ[1], BI |-> m.BI[1], UB |-> m.UB, LB |-> m.LB[1]]

\* the one-SKU data set equivalent to a single-product data set: UP[1] = 1
MultiOf(o) ==
    [n_months |-> o.n_months, n_scenarios |-> o.n_scenarios, n_skus |-> 1,
     D |-> [x \in (1..o.n_months) \X (1..o.n_scenarios) \X {1} |-> o.D[<<x[1], x[2]>>]],
     SP |-> Fill(1, o.CM + 1), UP |-> Fill(1, 1), W |-> Fill(1, o.W), O |-> Fill(1, o.O),
     L |-> Fill(1, o.L), MOQ |-> Fill(1, o.MOQ), BI |-> Fill(1, o.BI), UB |-> o.UB,
     LB |-> Fill(1, o.LB)]

OneData == {OneOf(m) : m \in {x \in MultiData : x.n_skus = 1}}

\* a single-product assignment read with K = {1}
Lift(q) ==
    [c \in {<<x[1], x[2] \o <<1>> >> : x \in DOMAIN q} |->
        q[<<c[1], SubSeq(c[2], 1, Len(c[2]) - 1)>>]]

-----------------------------------------------------------------------------
(* SpecModel: create_instance, then solve                                  *)

NoObj == [num |-> <<>>, den |-> 1, minus |-> <<>>]

InitModel ==
    /\ \/ variant = "multi" /\ data \in MultiData
       \/ variant = "one" /\ data \in OneData
    /\ pc = 0
    /\ status = "constructing"
    /\ cons = {}
    /\ obj = NoObj
    /\ plan = <<>>
    /\ sol = "none"
    /\ stage = "idle" /\ origin = "none" /\ arrX = NoArray /\ dok = <<>>
    /\ index_offset = DefaultOffset /\ res = NoRes /\ cargs = NoArgs /\ cdata = NoData

\* create_instance constructs the next component of the abstract model
ConstructComponent ==
    /\ status = "constructing"
    /\ LET c == Components(variant)[pc + 1]
           last == pc + 1 = Len(Components(variant))
           inst == Instances(variant, c.name, data)
       IN CASE c.kind = "param" ->
                  IF \A x \in ParamValues(variant, c.name, data) : Within(c.within, x)
                  THEN pc' = pc + 1 /\ UNCHANGED <<status, cons, obj>>
                  ELSE status' = "ValueError" /\ UNCHANGED <<pc, cons, obj>>
            [] c.kind \in {"set", "var"} ->
                  pc' = pc + 1 /\ UNCHANGED <<status, cons, obj>>
            [] c.kind = "constraint" ->
                  IF inst.err = "none"
                  THEN pc' = pc + 1 /\ cons' = cons \cup inst.cons /\ UNCHANGED <<status, obj>>
                  ELSE status' = inst.err /\ UNCHANGED <<pc, cons, obj>>
            [] c.kind = "objective" ->
                  IF data.n_scenarios = 0
                  THEN status' = "ZeroDivisionError" /\ UNCHANGED <<pc, cons, obj>>
                  ELSE /\ obj' = (IF variant = "multi" THEN obj_expression(data)
                                  ELSE one_obj_expression(data))
                       /\ pc' = pc + 1
                       /\ status' = (IF last THEN "built" ELSE status)
                       /\ UNCHANGED cons
    /\ UNCHANGED <<variant, data, plan, sol, convVars>>

\* the solver returns an assignment that satisfies every constraint: an optimal
\* one, or the best it found
Solve ==
    /\ status = "built"
    /\ sol = "none"
    /\ \E order \in {Sorted(Cells(variant, data))} :
       \E F \in {FeasibleIn(order, variant, cons)} :
          IF F = {}
          THEN sol' = "infeasible" /\ plan' = plan
          ELSE \E o \in {PlacedObj(order, obj)} :
               \E best \in {OptScaled(o, F)} :
               \E q \in F :
                  /\ plan' = AsPlan(order, q)
                  /\ sol' = (IF ObjScaled(o, q) = best THEN "optimal" ELSE "feasible")
    /\ UNCHANGED <<variant, data, pc, status, cons, obj, convVars>>

NextModel == ConstructComponent \/ Solve

SpecModel == InitModel /\ [][NextModel]_vars

-----------------------------------------------------------------------------
(* Properties of the conversion layer (SpecConv)                           *)

\* the map came from array_to_dok(arrX)
FromArray == origin = "array" /\ stage \in {"dok", "done"}

\* C5: array_to_dok keys each cell X[c1,..,cn] by the 1-based tuple
\* (c1+1,..,cn+1), by the bare integer c1+1 when X is 1-D, and
\* dok_to_array(array_to_dok(X)) with the default index offset has the shape of
\* X and the value of X in every cell.
C5_RoundTrip ==
    FromArray =>
        /\ Len(dok) = Prod(arrX.shape)
        /\ \A t \in Indices(arrX.shape) :
              \E n \in 1..Len(dok) :
                 /\ dok[n].key = (IF Len(arrX.shape) > 1
                                  THEN TupleKey([c \in 1..Len(t) |-> t[c] + 1])
                                  ELSE IntKey(t[1] + 1))
                 /\ dok[n].val = arrX.cells[t]
        /\ (stage = "done" /\ index_offset = DefaultOffset) =>
              /\ res.err = "none"
              /\ res.shape = arrX.shape
              /\ res.cells = arrX.cells

\* a 2-D array that is neither square nor constant went there and back
C5_Witness ==
    /\ FromArray /\ stage = "done" /\ index_offset = DefaultOffset
    /\ Len(arrX.shape) = 2 /\ arrX.shape[1] > arrX.shape[2] /\ arrX.shape[2] > 1
    /\ \E a, b \in Indices(arrX.shape) : arrX.cells[a] # arrX.cells[b]
    /\ res.err = "none"

C10_Pre ==
    /\ stage = "done" /\ Len(dok) > 0 /\ UniformArity(dok)
    /\ \A n \in 1..Len(dok) : \A c \in 1..Arity(dok[n].key) :
          AdjKey(dok[n].key, index_offset)[c] >= 0

\* C10: for every index offset o, dok_to_array(dok, o) on such a map returns an
\* array whose extent on each coordinate is the largest adjusted key plus 1,
\* holding each value at its adjusted key and NaN everywhere else.
C10_AnyOffset ==
    C10_Pre =>
        /\ res.err = "none"
        /\ Len(res.shape) = Arity(dok[1].key)
        /\ \A c \in 1..Len(res.shape) :
              res.shape[c] =
                 Max({AdjKey(dok[n].key, index_offset)[c] : n \in 1..Len(dok)}) + 1
        /\ \A t \in DOMAIN res.cells :
              LET at == {n \in 1..Len(dok) : AdjKey(dok[n].key, index_offset) = t}
              IN IF at = {} THEN res.cells[t] = NaN
                 ELSE res.cells[t] = dok[Max(at)].val

\* C6: convert_data returns n_months and n_scenarios as passed, D keyed by the
\* 1-based triples (i, j, k) holding the cells of the input array, and the
\* per-SKU parameters keyed by k in 1..n_skus.
C6_ConvertData ==
    stage = "converted" =>
        /\ cdata.n_months = Scalar(cargs.n_months)
        /\ cdata.n_scenarios = Scalar(cargs.n_scenarios)
        /\ {cdata.D[n].key : n \in 1..Len(cdata.D)} =
              {TupleKey([c \in 1..3 |-> t[c] + 1]) : t \in Indices(arrX.shape)}
        /\ \A n \in 1..Len(cdata.D) :
              \A t \in Indices(arrX.shape) :
                 cdata.D[n].key = TupleKey([c \in 1..3 |-> t[c] + 1]) =>
                    Num(cdata.D[n].val) = arrX.cells[t]
        /\ \A name \in {"SP", "UP", "W", "O", "L", "MOQ", "BI", "LB"} :
              /\ name \in DOMAIN cdata
              /\ {cdata[name][n].key : n \in 1..Len(cdata[name])} =
                    {IntKey(k) : k \in 1..cargs.n_skus}

-----------------------------------------------------------------------------
(* Properties of the optimisation models (SpecModel)                       *)

\* the solver returned an assignment
Solved == status = "built" /\ sol \in {"optimal", "feasible"}

\* the indices for which constraint `name` has an instance
Generated(name) == {c.idx : c \in {x \in cons : x.name = name}}

\* C1: in the multi-product model the recursion constraint is generated for
\* exactly the months 2..n_months, and every assignment that satisfies the
\* constraints has S[1,j,k] = X[1,k] + BI[k] and S[i,j,k] = X[i,k] + s[i-1,j,k]
\* for i in 2..n_months: what is carried forward is the surplus, never less
\* than nothing, whatever the deficit d[i-1,j,k] was.
C1_StockRecursion ==
    (variant = "multi" /\ status = "built") =>
        /\ Generated("const_stock") = (2..data.n_months) \X SetJ(data) \X SetK(data)
        /\ Generated("const_stock1") = SetJ(data) \X SetK(data)
        /\ Solved =>
              \A j \in SetJ(data), k \in SetK(data) :
                 /\ plan[<<"S", <<1, j, k>> >>] = plan[<<"X", <<1, k>> >>] + data.BI[k]
                 /\ \A i \in 2..data.n_months :
                       /\ plan[<<"S", <<i, j, k>> >>] =
                             plan[<<"X", <<i, k>> >>] + plan[<<"s", <<i - 1, j, k>> >>]
                       /\ plan[<<"S", <<i, j, k>> >>] >= plan[<<"X", <<i, k>> >>]

\* a two-month plan whose first month left both unmet demand and surplus
C1_Witness ==
    /\ variant = "multi" /\ Solved /\ data.n_months = 2
    /\ plan[<<"d", <<1, 1, 1>> >>] > 0
    /\ plan[<<"s", <<1, 1, 1>> >>] > 0
    /\ Generated("const_stock") = {<<2, 1, 1>>}

\* the minimum order quantity of the product ordered by X[idx]
MOQOf(idx) == IF variant = "multi" THEN data.MOQ[idx[2]] ELSE data.MOQ

\* C2: in every feasible assignment of either model, an order X > 0 has its
\* switch z = 1 and MOQ <= X <= bigM: every order is 0 or at least MOQ.
C2_MOQ ==
    Solved =>
        \A idx \in IndexSet(variant, "X", data) :
           /\ plan[<<"X", idx>>] > 0 =>
                 /\ plan[<<"z", idx>>] = 1
                 /\ MOQOf(idx) <= plan[<<"X", idx>>]
                 /\ plan[<<"X", idx>>] <= bigM
           /\ plan[<<"X", idx>>] = 0 \/ plan[<<"X", idx>>] >= MOQOf(idx)

\* an order was placed against a positive minimum order quantity
C2_Witness ==
    /\ variant = "multi" /\ Solved
    /\ \E idx \in IndexSet(variant, "X", data) :
          plan[<<"X", idx>>] > 0 /\ MOQOf(idx) > 0

C2_WitnessOne ==
    /\ variant = "one" /\ Solved
    /\ \E idx \in IndexSet(variant, "X", data) :
          plan[<<"X", idx>>] > 0 /\ MOQOf(idx) > 0

\* the data set has an empty month or scenario set
EmptyHorizon == variant # "none" /\ (data.n_months = 0 \/ data.n_scenarios = 0)

\* C7: instantiating either model with n_months = 0 or n_scenarios = 0 ends in
\* a validation error while the parameters are read: no variable, constraint
\* or objective is constructed, nothing is built, and the division by
\* n_scenarios is never evaluated.
C7_EmptyRejected ==
    EmptyHorizon =>
        /\ status \in {"constructing", "ValueError"}
        /\ \A m \in 1..pc : Components(variant)[m].kind \in {"param", "set"}

\* C9: in the single-product model every feasible assignment has
\* s[i,j] = S[i,j] - V[i,j].
C9_SurplusIsStockLessSales ==
    (variant = "one" /\ Solved) =>
        \A idx \in IndexSet("one", "s", data) :
           plan[<<"s", idx>>] = plan[<<"S", idx>>] - plan[<<"V", idx>>]

\* C4: every assignment feasible for the single-product constraints is, read
\* with K = {1} on the equivalent one-SKU data, feasible for the multi-product
\* constraints.
C4_Restriction ==
    (variant = "one" /\ Solved) =>
        Feasible("multi", MultiOf(data), AllConstraints("multi", MultiOf(data)), Lift(plan))

\* C3: the optimal objective value of the single-product model equals that of
\* the multi-product model on the equivalent one-SKU data.
C3_SameOptimum ==
    (variant = "one" /\ status = "built" /\ sol = "optimal") =>
        LET m == MultiOf(data)
            F == FeasiblePlans("multi", m, AllConstraints("multi", m))
        IN /\ F # {}
           /\ ObjScaled(obj, plan) = OptScaled(obj_expression(m), F)


====
